---- MODULE Spec2Model ----
(***************************************************************************)
(* Model of the weather-station acquisition pipeline.                      *)
(*                                                                         *)
(*   src/main.py    rain_cb / wind_cb (GPIO event thread), analog_read,    *)
(*                  weather_logging_flow and its stages (setup_board,      *)
(*                  setup_producer, calibrate_temperature, calibrate_bmp), *)
(*                  produce_data (sampling loop and rotation),             *)
(*                  process_data, record_data_flow (in-process reducer)    *)
(*   src/update.py  process_data, process_data_live, process_flow          *)
(*                  (stand-alone reducer)                                  *)
(*                                                                         *)
(* Three threads of control are modelled: the GPIO event thread that runs  *)
(* the pulse callbacks, the main thread of main.py, and a reducer pass     *)
(* (record_data_flow runs on the main thread after produce_data;           *)
(* process_flow is a process of its own).  One run of main.py is followed  *)
(* from its start; earlier runs are present as the batch file they may     *)
(* have left in the pending directory.                                     *)
(***************************************************************************)
EXTENDS Integers, Sequences, FiniteSets, TLC

\* ------------------------------------------------------------------ bounds
MaxPulses == 1      \* pulses of each kind the hardware delivers per process
MaxTicks  == 2      \* iterations of the sampling loop per batch
MaxPasses == 1      \* runs of update.py
MaxCharge == 1      \* polls a healthy wind vane needs to charge
MaxSpin   == MaxCharge + 1   \* cap on the spin counter of a stuck-open wind vane

\* --------------------------------------------------------------- constants
RAIN_ITERATOR       == 2794   \* 0.2794 mm per pulse, in 1e-4 mm
ANEMOMETER_ITERATOR == 24     \* 2.4 km/h per pulse, in 1e-1 km/h

\* f'{datetime.now().strftime("%Y%m%d-%H%M%S")}.csv': the batch an earlier
\* run rotated, and the batch of the run that is followed
OldName == "20221109-055900.csv"
NewName == "20221111-055900.csv"
FileIds == {OldName, NewName}
NoFile  == ""

\* file[:7], the name under which to_csv appends a batch in the archive
\* directory: f'{ARCHIVE_PATH}/{file[:7]}.csv'
archive_file(file) == SubSeq(file, 1, 7) \o ".csv"

\* the calendar month of a batch file name: the %Y%m of its time stamp
MonthOf(file) == SubSeq(file, 1, 6)

\* the rows of the earlier batch
OldBatch == << [rain |-> 0, wind |-> 0], [rain |-> 1, wind |-> 1] >>

\* pandas NaN, and a present value
NaN    == <<>>
Val(v) == <<v>>

\* temperatures are in units of 0.05 degrees Celsius: 20.0, 20.5 and 21.5
Temps  == {400, 410, 430}
NoTemp == 0
\* `> 1` in calibrate_temperature: 1 degree Celsius
WarnAbove == 20

VARIABLES
    RAIN, WIND,          \* the module globals of main.py
    cbPc, cbTmp,         \* GPIO event thread: position and loaded value
    rainIssued, windIssued,   \* history: increments completed in this process
    pc,                  \* main thread of main.py
    clock,               \* the wall clock has reached the cutoff, 05:59 UTC
    cur,                 \* log_file_path of the running produce_data
    open,                \* the batch file handle is open
    ticks,               \* loop iterations of the current batch
    sample,              \* data_json of the tick in progress
    temp, chargeAt, stuck,    \* charge_time's counter; the vane circuit
    pins,                \* how the two wind vane pins are set up and driven
    printed,             \* lines printed by the except clause of the loop
    sent,                \* messages handed to producer.send
    live, pending, records,   \* the three directories
    content,             \* the RAIN and WIND_SPEED columns of every batch file
    rPc, rKind, rList,   \* reducer pass: position, which flow, files left
    rListed, rFailed, rDone,  \* history of the pass
    data, dataOf, dataKind,   \* the reducer's data frame and its origin
    archive, current,    \* appends of every batch file to archive_file(f)
                         \* and to the current-data file
    passes,
    bound,               \* the locals of weather_logging_flow that are bound
    bmp_t, sht_t,        \* the locals of calibrate_temperature
    flowTemp,            \* the flow's `temp`, as calibrate_temperature returned it
    warned,              \* the divergence warning has been logged
    seen, seenNow,       \* history: the increments completed when the rows
                         \* of the batch, and the sample in progress, were read
    liveIn, liveOut      \* a raw batch handed to update.py's reduction, and
                         \* the frame process_data_live returns for it

vars == << RAIN, WIND, cbPc, cbTmp, rainIssued, windIssued, pc, clock, cur,
           open, ticks, sample, temp, chargeAt, stuck, pins, printed, sent,
           live, pending, records, content,
           rPc, rKind, rList, rListed, rFailed, rDone, data, dataOf,
           dataKind, archive, current, passes, bound, bmp_t, sht_t, flowTemp,
           warned, seen, seenNow, liveIn, liveOut >>

flowVars   == << bound, bmp_t, sht_t, flowTemp, warned >>

liveVars   == << liveIn, liveOut >>
seenVars   == << seen, seenNow >>
cbVars     == << cbPc, cbTmp >>
counters   == << RAIN, WIND, rainIssued, windIssued >>
vaneVars   == << temp, chargeAt, stuck, pins >>
dirVars    == << live, pending, records >>
reducerVars == << rPc, rKind, rList, rListed, rFailed, rDone, data, dataOf,
                  dataKind, archive, current, passes >>

NoSample == [rain |-> 0, wind |-> 0, dir |-> 0]

\* PIN_WIND_VANE_A is the reference line and PIN_WIND_VANE_B the sense line.
\* Before the first measurement neither is set up; discharge() makes A an
\* input, drives B low and sleeps 5 ms; charge_time() drives A high and
\* makes B an input.
UnsetPins      == [A |-> "unset", B |-> "unset", settled |-> FALSE]
DischargedPins == [A |-> "in", B |-> "low", settled |-> TRUE]
ChargingPins   == [A |-> "high", B |-> "in", settled |-> FALSE]
NoneSeen == [rain |-> 0, wind |-> 0]

Init ==
    /\ RAIN = 0 /\ WIND = 0
    /\ cbPc = "idle" /\ cbTmp = 0
    /\ rainIssued = 0 /\ windIssued = 0
    /\ pc = "setup_board"
    /\ bound = {} /\ bmp_t = NoTemp /\ sht_t = NoTemp /\ flowTemp = NoTemp
    /\ warned = FALSE
    /\ clock = FALSE
    /\ cur = NoFile /\ open = FALSE /\ ticks = 0
    /\ sample = NoSample
    /\ temp = 0 /\ chargeAt = 0 /\ stuck = FALSE
    /\ pins = UnsetPins
    /\ printed = 0 /\ sent = 0
    /\ live = {} /\ records = {}
    /\ pending \in {{}, {OldName}}
    /\ content = [f \in FileIds |-> IF f \in pending THEN OldBatch ELSE <<>>]
    /\ rPc = "idle" /\ rKind = "none" /\ rList = <<>>
    /\ rListed = {} /\ rFailed = {} /\ rDone = {}
    /\ data = <<>> /\ dataOf = NoFile /\ dataKind = "none"
    /\ archive = [f \in FileIds |-> [conv |-> 0, raw |-> 0]]
    /\ current = [f \in FileIds |-> 0]
    /\ passes = 0
    /\ seen = <<>> /\ seenNow = NoneSeen
    /\ liveIn = <<>> /\ liveOut = <<>>

\* ------------------------------------------------- GPIO event thread
\* RAIN += 1 is a load, an add and a store; RPi.GPIO runs every callback on
\* its single event thread, so the callbacks never overlap each other.
\* setup_board registers the callbacks.  Nothing reads the counters before
\* the first tick of produce_data, so a pulse that arrives during the
\* stages before it is followed as one that arrives at the call of
\* produce_data; the callbacks are followed until produce_data is left.
Running ==
    /\ "board" \in bound
    /\ pc \in {"start", "loop", "rain", "wind", "discharge", "charge", "spin",
               "sensors", "write", "publish", "close", "rename"}

\* RAIN += 1 (a callback that stores the count unchanged is NotIncremented)
NotIncremented(c) == c
Incremented(c) == c + 1

rain_cb_load ==
    /\ Running /\ cbPc = "idle" /\ rainIssued < MaxPulses
    /\ cbPc' = "rain" /\ cbTmp' = RAIN
    /\ UNCHANGED << counters, pc, clock, cur, open, ticks, sample, vaneVars,
                    printed, sent, dirVars, content,
                    reducerVars >>
    /\ UNCHANGED seenVars
    /\ UNCHANGED flowVars
    /\ UNCHANGED liveVars

rain_cb_store ==
    /\ Running /\ cbPc = "rain"
    /\ RAIN' = Incremented(cbTmp)
    /\ rainIssued' = rainIssued + 1
    /\ cbPc' = "idle" /\ cbTmp' = 0
    /\ UNCHANGED << WIND, windIssued, pc, clock, cur, open, ticks, sample,
                    vaneVars, printed, sent, dirVars, content,
                    reducerVars >>
    /\ UNCHANGED seenVars
    /\ UNCHANGED flowVars
    /\ UNCHANGED liveVars

wind_cb_load ==
    /\ Running /\ cbPc = "idle" /\ windIssued < MaxPulses
    /\ cbPc' = "wind" /\ cbTmp' = WIND
    /\ UNCHANGED << counters, pc, clock, cur, open, ticks, sample, vaneVars,
                    printed, sent, dirVars, content,
                    reducerVars >>
    /\ UNCHANGED seenVars
    /\ UNCHANGED flowVars
    /\ UNCHANGED liveVars

wind_cb_store ==
    /\ Running /\ cbPc = "wind"
    /\ WIND' = Incremented(cbTmp)
    /\ windIssued' = windIssued + 1
    /\ cbPc' = "idle" /\ cbTmp' = 0
    /\ UNCHANGED << RAIN, rainIssued, pc, clock, cur, open, ticks, sample,
                    vaneVars, printed, sent, dirVars, content,
                    reducerVars >>
    /\ UNCHANGED seenVars
    /\ UNCHANGED flowVars
    /\ UNCHANGED liveVars

\* ------------------------------------------------ weather_logging_flow
\* Every stage of the flow sits in a try of its own whose except clause
\* logs and goes on.  A stage that raises leaves the variables it would
\* have assigned unbound; a later call that names an unbound variable
\* raises UnboundLocalError before the task is entered.
stageRest == << counters, cbVars, clock, cur, open, ticks, sample, vaneVars,
                printed, sent, dirVars, content, reducerVars, seenVars,
                liveVars >>

\* bmp, sht, tmp = setup_board()
setup_board ==
    /\ pc = "setup_board"
    /\ \E ok \in BOOLEAN : bound' = IF ok THEN bound \cup {"board"} ELSE bound
    /\ pc' = "setup_producer"
    /\ UNCHANGED << bmp_t, sht_t, flowTemp, warned, stageRest >>

\* producer = setup_producer()
setup_producer ==
    /\ pc = "setup_producer"
    /\ \E ok \in BOOLEAN :
          bound' = IF ok THEN bound \cup {"producer"} ELSE bound
    /\ pc' = "calibrate_temperature"
    /\ UNCHANGED << bmp_t, sht_t, flowTemp, warned, stageRest >>

\* calibrate_temperature(bmp, sht, tmp), up to the three sensor reads
calibrate_temperature ==
    /\ pc = "calibrate_temperature"
    /\ \E ok \in BOOLEAN :
          IF "board" \in bound /\ ok
          THEN /\ \E t1, t2 \in Temps : bmp_t' = t1 /\ sht_t' = t2
               /\ pc' = "average"
          ELSE /\ pc' = "calibrate_bmp"
               /\ UNCHANGED << bmp_t, sht_t >>
    /\ UNCHANGED << bound, flowTemp, warned, stageRest >>

\* abs(bmp_t - sht_t) > 1 (a check that warns at 1 degree is DivergedFrom)
Abs(x) == IF x < 0 THEN -x ELSE x
DivergedFrom(a, b) == Abs(a - b) >= WarnAbove
Diverged(a, b) == Abs(a - b) > WarnAbove

\* the rest of calibrate_temperature: the warning, the mean, the return
\* and the assignment to the flow's temp
average ==
    /\ pc = "average"
    /\ warned' = Diverged(bmp_t, sht_t)
    /\ flowTemp' = (bmp_t + sht_t) \div 2
    /\ bound' = bound \cup {"temp"}
    /\ bmp_t' = NoTemp /\ sht_t' = NoTemp
    /\ pc' = "calibrate_bmp"
    /\ UNCHANGED stageRest

\* calibrated = calibrate_bmp(bmp, temp): sensor.pressure may raise; the
\* flow's temp is not read again before produce_data's result replaces it
calibrate_bmp ==
    /\ pc = "calibrate_bmp"
    /\ \E ok \in BOOLEAN :
          bound' = IF {"board", "temp"} \subseteq bound /\ ok
                   THEN bound \cup {"calibrated"} ELSE bound
    /\ flowTemp' = NoTemp
    /\ pc' = "start"
    /\ UNCHANGED << bmp_t, sht_t, warned, stageRest >>

\* ------------------------------------------------------- produce_data
\* The counter a read leaves behind: "rain": RAIN only reads the global.
CounterResetOnRead(c) == 0
CounterAfterRead(c) == c

\* Where the except clause of the sampling loop resumes: the try statement
\* is inside the while loop, so the loop head.
ExceptionLeavesLoop == "close"
TickExceptionTarget == "loop"

\* print(f'EXCEPTION: {e}')
NotLogged(n) == n
Logged(n) == n + 1

\* GPIO.input(PIN_WIND_VANE_B) after `polls` polls that read low
SenseHigh(polls) == ~stuck /\ polls >= chargeAt

\* produce_data is left, by return or by an exception: its locals are gone.
\* Nothing reads RAIN and WIND after it, so the model follows the counters
\* and the callbacks no further.
LeaveProduceData ==
    /\ RAIN' = 0 /\ WIND' = 0 /\ rainIssued' = 0 /\ windIssued' = 0
    /\ cbPc' = "idle" /\ cbTmp' = 0
    /\ cur' = NoFile /\ ticks' = 0 /\ sample' = NoSample
    /\ seenNow' = NoneSeen
    /\ temp' = 0 /\ chargeAt' = 0 /\ stuck' = FALSE
    /\ pins' = UnsetPins
    /\ printed' = 0 /\ sent' = 0
    /\ clock' = FALSE

InBatch == pc \in {"loop", "rain", "wind", "discharge", "charge", "spin",
                   "sensors", "write", "publish", "close"}

\* The arguments of the call produce_data(bmp, sht, tmp, calibrated,
\* producer) are evaluated first.
ArgsBound == {"board", "calibrated", "producer"} \subseteq bound

OpenBatch ==
    /\ pc = "start" /\ ArgsBound
    /\ cur' = NewName
    /\ live' = live \cup {NewName}
    /\ content' = [content EXCEPT ![NewName] = <<>>]
    /\ open' = TRUE /\ ticks' = 0
    /\ pc' = "loop"
    /\ UNCHANGED << counters, cbVars, clock, sample, vaneVars, printed, sent,
                    pending, records, reducerVars >>
    /\ seen' = <<>> /\ UNCHANGED seenNow
    /\ warned' = FALSE /\ UNCHANGED << bound, bmp_t, sht_t, flowTemp >>
    /\ UNCHANGED liveVars

\* an argument of the call is unbound: UnboundLocalError, caught by the
\* except clause around the call; the flow goes on to record_data_flow()
ProduceDataUnbound ==
    /\ pc = "start" /\ ~ArgsBound
    /\ pc' = "reduce"
    /\ warned' = FALSE
    /\ LeaveProduceData
    /\ UNCHANGED << bound, bmp_t, sht_t, flowTemp, open, dirVars, content,
                    reducerVars, seen, liveVars >>

\* time.strftime("%H") == '05' and the minute >= 59: the wall clock is read
\* at the head of every iteration, and nowhere else.  LoopBreak is the
\* reading that finds the cutoff reached, LoopTick the reading that does not.
LoopBreak ==
    /\ pc = "loop"
    /\ clock' = TRUE
    /\ pc' = "close"
    /\ UNCHANGED << counters, cbVars, cur, open, ticks, sample,
                    vaneVars, printed, sent, dirVars, content,
                    reducerVars >>
    /\ UNCHANGED seenVars
    /\ UNCHANGED flowVars
    /\ UNCHANGED liveVars

\* The wall clock reaches the cutoff during a tick.  A tick that ends comes
\* to the loop head, where the clock is read; the one place where the main
\* thread can stay while the clock goes on is charge_time's wait for a
\* sense line that never reads high.
CutoffArrives ==
    /\ pc = "spin" /\ stuck /\ ~clock
    /\ clock' = TRUE
    /\ UNCHANGED << counters, cbVars, pc, cur, open, ticks, sample, vaneVars,
                    printed, sent, dirVars, content, reducerVars, flowVars,
                    seenVars, liveVars >>

LoopTick ==
    /\ pc = "loop" /\ ticks < MaxTicks
    /\ UNCHANGED clock
    /\ ticks' = ticks + 1
    /\ pc' = "rain"
    /\ UNCHANGED << counters, cbVars, cur, open, sample, vaneVars, printed,
                    sent, dirVars, content, reducerVars >>
    /\ UNCHANGED seenVars
    /\ UNCHANGED flowVars
    /\ UNCHANGED liveVars

ReadRain ==
    /\ pc = "rain"
    /\ sample' = [sample EXCEPT !.rain = RAIN]
    /\ RAIN' = CounterAfterRead(RAIN)
    /\ pc' = "wind"
    /\ UNCHANGED << WIND, rainIssued, windIssued, cbVars, clock, cur, open,
                    ticks, vaneVars, printed, sent, dirVars, content,
                    reducerVars >>
    /\ seenNow' = [seenNow EXCEPT !.rain = rainIssued] /\ UNCHANGED seen
    /\ UNCHANGED flowVars
    /\ UNCHANGED liveVars

ReadWind ==
    /\ pc = "wind"
    /\ sample' = [sample EXCEPT !.wind = WIND]
    /\ WIND' = CounterAfterRead(WIND)
    /\ pc' = "discharge"
    /\ UNCHANGED << RAIN, rainIssued, windIssued, cbVars, clock, cur, open,
                    ticks, vaneVars, printed, sent, dirVars, content,
                    reducerVars >>
    /\ seenNow' = [seenNow EXCEPT !.wind = windIssued] /\ UNCHANGED seen
    /\ UNCHANGED flowVars
    /\ UNCHANGED liveVars

\* discharge(): the vane's resistance at this measurement is the
\* environment's choice; a stuck-open circuit never charges.
discharge ==
    /\ pc = "discharge"
    /\ \E k \in 0..MaxCharge, s \in BOOLEAN :
          /\ stuck' = s
          /\ chargeAt' = IF s THEN 0 ELSE k
    /\ pins' = DischargedPins
    /\ pc' = "charge"
    /\ UNCHANGED << counters, cbVars, clock, cur, open, ticks, sample, temp,
                    printed, sent, dirVars, content,
                    reducerVars >>
    /\ UNCHANGED seenVars
    /\ UNCHANGED flowVars
    /\ UNCHANGED liveVars

\* charge_time(): temp = 0 and the pin set-up
charge_time ==
    /\ pc = "charge"
    /\ temp' = 0
    /\ pins' = ChargingPins
    /\ pc' = "spin"
    /\ UNCHANGED << counters, cbVars, clock, cur, open, ticks, sample,
                    chargeAt, stuck, printed, sent, dirVars,
                    content, reducerVars >>
    /\ UNCHANGED seenVars
    /\ UNCHANGED flowVars
    /\ UNCHANGED liveVars

\* while not GPIO.input(PIN_WIND_VANE_B): temp += 1
\* (Python integers do not overflow; the model stops counting at MaxSpin.)
SpinLow ==
    /\ pc = "spin" /\ ~SenseHigh(temp)
    /\ temp' = IF temp < MaxSpin THEN temp + 1 ELSE temp
    /\ UNCHANGED << counters, cbVars, pc, clock, cur, open, ticks, sample,
                    chargeAt, stuck, pins, printed, sent, dirVars,
                    content, reducerVars >>
    /\ UNCHANGED seenVars
    /\ UNCHANGED flowVars
    /\ UNCHANGED liveVars

\* return temp (a count that includes the poll that read high is
\* CountsLastPoll)
CountsLastPoll(t) == t + 1
Returned(t) == t

SpinHigh ==
    /\ pc = "spin" /\ SenseHigh(temp)
    /\ sample' = [sample EXCEPT !.dir = Returned(temp)]
    /\ temp' = 0 /\ chargeAt' = 0 /\ stuck' = FALSE
    /\ UNCHANGED pins
    /\ pc' = "sensors"
    /\ UNCHANGED << counters, cbVars, clock, cur, open, ticks,
                    printed, sent, dirVars, content,
                    reducerVars >>
    /\ UNCHANGED seenVars
    /\ UNCHANGED flowVars
    /\ UNCHANGED liveVars

\* read_temp and the bmp/sht properties: any of them may raise
ReadSensors ==
    /\ pc = "sensors"
    /\ \E ok \in BOOLEAN :
          IF ok
          THEN /\ pc' = "write"
               /\ UNCHANGED << printed, sample >>
          ELSE /\ pc' = TickExceptionTarget
               /\ printed' = Logged(printed)
               /\ sample' = NoSample
    /\ UNCHANGED << counters, cbVars, clock, cur, open, ticks,
                    vaneVars, sent, dirVars, content,
                    reducerVars >>
    /\ seenNow' = IF pc' = "write" THEN seenNow ELSE NoneSeen
    /\ UNCHANGED seen
    /\ UNCHANGED flowVars
    /\ UNCHANGED liveVars

\* writer.writerow([...]): the columns of the row the reducer reads
\* (a writer that puts the two counts in each other's column is RowSwapped)
RowSwapped(s) == [rain |-> s.wind, wind |-> s.rain]
Row(s) == [rain |-> s.rain, wind |-> s.wind]

\* writer.writerow(...) (a writer that drops the row is NotAppended)
NotAppended(rows, row) == rows
Appended(rows, row) == Append(rows, row)

WriteRow ==
    /\ pc = "write"
    /\ content' = [content EXCEPT ![cur] = Appended(@, Row(sample))]
    /\ pc' = "publish"
    /\ UNCHANGED << counters, cbVars, clock, cur, open, ticks, sample,
                    vaneVars, printed, sent, dirVars,
                    reducerVars >>
    /\ seen' = Append(seen, seenNow) /\ UNCHANGED seenNow
    /\ UNCHANGED flowVars
    /\ UNCHANGED liveVars

Publish ==
    /\ pc = "publish"
    /\ \E ok \in BOOLEAN :
          IF ok
          THEN /\ sent' = sent + 1
               /\ pc' = "loop"
               /\ UNCHANGED printed
          ELSE /\ printed' = Logged(printed)
               /\ pc' = TickExceptionTarget
               /\ UNCHANGED sent
    /\ sample' = NoSample
    /\ UNCHANGED << counters, cbVars, clock, cur, open, ticks,
                    vaneVars, dirVars, content,
                    reducerVars >>
    /\ seenNow' = NoneSeen /\ UNCHANGED seen
    /\ UNCHANGED flowVars
    /\ UNCHANGED liveVars

CloseBatch ==
    /\ pc = "close"
    /\ open' = FALSE
    /\ pc' = "rename"
    /\ UNCHANGED << counters, cbVars, clock, cur, ticks, sample, vaneVars,
                    printed, sent, dirVars, content,
                    reducerVars >>
    /\ UNCHANGED seenVars
    /\ UNCHANGED flowVars
    /\ UNCHANGED liveVars

\* os.rename(log_file_path, DATA_PATH/...); an OSError is caught by the
\* flow, which goes on to record_data_flow
RenameBatch ==
    /\ pc = "rename"
    /\ \E ok \in BOOLEAN :
          IF ok
          THEN /\ live' = live \ {cur}
               /\ pending' = pending \cup {cur}
          ELSE UNCHANGED << live, pending >>
    /\ pc' = "reduce"
    /\ LeaveProduceData
    /\ UNCHANGED << open, records, content, reducerVars >>
    /\ UNCHANGED seen
    /\ UNCHANGED flowVars
    /\ UNCHANGED liveVars

\* The loop is stopped from outside by a KeyboardInterrupt (SIGINT): it is
\* no Exception, so neither the except clause of the loop nor those of the
\* flow catch it; the with statement closes the file on the way out and the
\* process ends before os.rename.
Stop ==
    /\ InBatch \/ pc = "rename"
    /\ open' = FALSE
    /\ pc' = "stopped"
    /\ LeaveProduceData
    /\ UNCHANGED << dirVars, content, reducerVars >>
    /\ UNCHANGED seen
    /\ UNCHANGED flowVars
    /\ UNCHANGED liveVars

\* ------------------------------------------------------------ reducer
\* df['RAIN'] - df['RAIN'].shift(1): shift(1) puts NaN in row 0 and
\* row i-1 of the same frame in row i; NaN propagates through - and *.
Shifted(col, i) == IF i = 1 THEN NaN ELSE Val(col[i - 1])

Delta(col, i, unit) ==
    IF Shifted(col, i) = NaN THEN NaN
    ELSE Val((col[i] - Shifted(col, i)[1]) * unit)

Column(df, name) == [i \in 1..Len(df) |-> df[i][name]]

\* the frame as pd.read_csv returns it
read_csv(rows) ==
    [i \in 1..Len(rows) |-> [rain |-> Val(rows[i].rain),
                             wind |-> Val(rows[i].wind)]]

\* a variant that fills the undefined first delta with 0
process_data_fillna(rows) ==
    [i \in 1..Len(rows) |->
        [rain |-> IF i = 1 THEN Val(0)
                  ELSE Delta(Column(rows, "rain"), i, RAIN_ITERATOR),
         wind |-> IF i = 1 THEN Val(0)
                  ELSE Delta(Column(rows, "wind"), i, ANEMOMETER_ITERATOR)]]

process_data(rows) ==
    [i \in 1..Len(rows) |->
        [rain |-> Delta(Column(rows, "rain"), i, RAIN_ITERATOR),
         wind |-> Delta(Column(rows, "wind"), i, ANEMOMETER_ITERATOR)]]

\* os.listdir(DATA_PATH) / os.listdir(CACHE_PATH): the pending directory
ListLiveToo == pending \cup live
ListDir == pending

\* the orders in which os.listdir may return a set of names
Orders(S) ==
    { q \in [1..Cardinality(S) -> S] :
        \A i, j \in 1..Cardinality(S) : i # j => q[i] # q[j] }

writerVars == << counters, cbVars, clock, cur, ticks, sample, vaneVars,
                 printed, sent, content >>

\* record_data_flow is called by weather_logging_flow after produce_data.
\* A pass of one flow starts when no pass of the other is running; the
\* history of the pass before it is dropped.
NoPassRunning == rPc \in {"idle", "ended"}

StartRecordFlow ==
    /\ pc = "reduce" /\ NoPassRunning
    /\ \E q \in Orders(ListDir) : rList' = q
    /\ rListed' = ListDir /\ rFailed' = {} /\ rDone' = {}
    /\ rKind' = "record_data_flow" /\ rPc' = "run"
    /\ pc' = "reducing"
    /\ UNCHANGED << counters, cbVars, clock, cur, open, ticks, sample,
                    vaneVars, printed, sent, dirVars, content,
                    data, dataOf, dataKind, archive, current,
                    passes >>
    /\ UNCHANGED seenVars
    /\ UNCHANGED flowVars
    /\ UNCHANGED liveVars

\* update.py run as a process of its own
StartProcessFlow ==
    /\ NoPassRunning /\ passes < MaxPasses
    /\ \E q \in Orders(ListDir) : rList' = q
    /\ rListed' = ListDir /\ rFailed' = {} /\ rDone' = {}
    /\ rKind' = "process_flow" /\ rPc' = "run"
    /\ passes' = passes + 1
    /\ UNCHANGED << pc, open, writerVars, dirVars, data, dataOf, dataKind, archive,
                    current >>
    /\ UNCHANGED seenVars
    /\ UNCHANGED flowVars
    /\ UNCHANGED liveVars

\* the flow is left, by return or by an exception: its frame is gone
FrameGone == data' = <<>> /\ dataOf' = NoFile /\ dataKind' = "none"

\* One iteration of the for loop of record_data_flow.  read_csv raising
\* goes to the outer except; process_data, to_csv and os.rename each sit in
\* a try of their own, so the iteration goes on after any of them raises.
RecordFile ==
    /\ rPc = "run" /\ rKind = "record_data_flow" /\ rList # <<>>
    /\ LET f == Head(rList) IN
       \E readOk, procOk, appendOk, renameOk \in BOOLEAN :
          /\ rList' = Tail(rList)
          /\ IF ~readOk
             THEN /\ rFailed' = rFailed \cup {f}
                  /\ UNCHANGED << rDone, data, dataOf, dataKind, archive,
                                  pending, records >>
             ELSE /\ data' = IF procOk THEN process_data(content[f])
                                       ELSE read_csv(content[f])
                  /\ dataKind' = IF procOk THEN "converted" ELSE "raw"
                  /\ dataOf' = f
                  /\ archive' =
                        IF ~appendOk THEN archive
                        ELSE IF procOk
                             THEN [archive EXCEPT ![f].conv = @ + 1]
                             ELSE [archive EXCEPT ![f].raw = @ + 1]
                  /\ IF renameOk /\ f \in pending
                     THEN /\ pending' = pending \ {f}
                          /\ records' = records \cup {f}
                     ELSE UNCHANGED << pending, records >>
                  /\ IF procOk /\ appendOk /\ renameOk /\ f \in pending
                     THEN rDone' = rDone \cup {f} /\ UNCHANGED rFailed
                     ELSE rFailed' = rFailed \cup {f} /\ UNCHANGED rDone
    /\ UNCHANGED << pc, open, writerVars, live, rPc, rKind, rListed, current,
                    passes >>
    /\ UNCHANGED seenVars
    /\ UNCHANGED flowVars
    /\ UNCHANGED liveVars

\* One iteration of the for loop of process_flow: no statement of it is in
\* a try, so the first exception ends the flow.
Stages == <<"read", "process", "live", "current", "archive", "rename",
            "none">>
StageNo(s) == CHOOSE i \in 1..Len(Stages) : Stages[i] = s
\* the stage named `s` ran to its end when the failure is at stage `fail`
Ran(s, fail) == StageNo(s) < StageNo(fail)

ProcessFile ==
    /\ rPc = "run" /\ rKind = "process_flow" /\ rList # <<>>
    /\ LET f == Head(rList) IN
       \E fail \in {Stages[i] : i \in 1..Len(Stages)} :
          /\ IF Ran("rename", fail) /\ f \in pending
             THEN /\ data' = process_data(content[f])
                  /\ dataKind' = "converted"
                  /\ dataOf' = f
             ELSE FrameGone
          /\ current' = IF Ran("current", fail)
                        THEN [current EXCEPT ![f] = @ + 1] ELSE current
          /\ archive' = IF Ran("archive", fail)
                        THEN [archive EXCEPT ![f].conv = @ + 1] ELSE archive
          /\ IF Ran("rename", fail) /\ f \in pending
             THEN /\ pending' = pending \ {f}
                  /\ records' = records \cup {f}
                  /\ rList' = Tail(rList)
                  /\ rDone' = rDone \cup {f}
                  /\ UNCHANGED << rFailed, rPc >>
             ELSE /\ rFailed' = rFailed \cup {f}
                  /\ rList' = <<>>
                  /\ rPc' = "ended"
                  /\ UNCHANGED << pending, records, rDone >>
    /\ UNCHANGED << pc, open, writerVars, live, rKind, rListed, passes >>
    /\ UNCHANGED seenVars
    /\ UNCHANGED flowVars
    /\ UNCHANGED liveVars

\* The for loop has run through its listing: the flow returns and its frame
\* is gone.  After record_data_flow the process of main.py ends
\* (GPIO.cleanup and the producer's close aside).
EndPass ==
    /\ rPc = "run" /\ rList = <<>>
    /\ rPc' = "ended"
    /\ FrameGone
    /\ pc' = IF rKind = "record_data_flow" THEN "done" ELSE pc
    /\ UNCHANGED << open, writerVars, dirVars, rKind, rList, rListed,
                    rFailed, rDone, archive, current, passes >>
    /\ UNCHANGED seenVars
    /\ UNCHANGED flowVars
    /\ UNCHANGED liveVars

\* ------------------------------------------------ process_data_live
MaxRows   == 4      \* rows of a batch handed to the reduction
MaxCount  == 3      \* highest rain count in such a batch
MaxMinute == 1      \* minutes such a batch spans

\* time.time() of a row, in seconds: three instants in every minute
Stamps == { 60 * m + s : m \in 0..MaxMinute, s \in {0, 20, 40} }

\* the sequences of length n over S that grow (strictly, or not)
RECURSIVE Growing(_, _, _)
Growing(n, S, strict) ==
    IF n = 0 THEN { <<>> }
    ELSE UNION { { Append(q, x) :
                     x \in { y \in S : \/ q = <<>>
                                       \/ q[Len(q)] < y
                                       \/ (~strict /\ q[Len(q)] = y) } } :
                 q \in Growing(n - 1, S, strict) }

\* a batch the writer can leave: n rows, the time stamps ts, the counts rs
\* and ws; time stamps grow and counters never fall
RawBatch(n, ts, rs, ws) ==
    [i \in 1..n |-> [time |-> ts[i], rain |-> rs[i], wind |-> ws[i]]]

\* temp['DATETIME'].dt.floor('T')
floor_T(t) == (t \div 60) * 60

\* the frame process_data returns, with its DATETIME_t column
Converted(rows) ==
    [i \in 1..Len(rows) |->
        [DATETIME_t |-> floor_T(rows[i].time),
         rain |-> process_data(rows)[i].rain,
         wind |-> process_data(rows)[i].wind]]

\* the values of a column that median() takes into account: skipna
NullAsZero(col) == [i \in 1..Len(col) |-> IF col[i] = NaN THEN 0 ELSE col[i][1]]
NonNull(col) ==
    LET RECURSIVE Keep(_)
        Keep(c) == IF c = <<>> THEN <<>>
                   ELSE IF Head(c) = NaN THEN Keep(Tail(c))
                   ELSE << Head(c)[1] >> \o Keep(Tail(c))
    IN Keep(col)

\* the values of q in ascending order
RECURSIVE Sorted(_)
Sorted(q) ==
    IF q = <<>> THEN <<>>
    ELSE LET rest == Sorted(Tail(q))
             below == SelectSeq(rest, LAMBDA v : v <= Head(q))
             above == SelectSeq(rest, LAMBDA v : v > Head(q))
         IN below \o << Head(q) >> \o above

\* Series.median(): NaN for no value, the middle of the sorted values, or
\* the mean of the two middle ones
median(col) ==
    LET v == Sorted(NonNull(col))
        n == Len(v)
    IN IF n = 0 THEN NaN
       ELSE IF n % 2 = 1 THEN Val(v[(n + 1) \div 2])
       ELSE Val((v[n \div 2] + v[n \div 2 + 1]) \div 2)

\* the rows of a frame that fall in one group of the groupby
Group(frame, key) ==
    LET RECURSIVE Pick(_)
        Pick(f) == IF f = <<>> THEN <<>>
                   ELSE IF Head(f).DATETIME_t = key
                        THEN << Head(f) >> \o Pick(Tail(f))
                        ELSE Pick(Tail(f))
    IN Pick(frame)

\* data.groupby(['DATETIME_t']).median().reset_index(): the groups come in
\* the order of their keys
process_data_live(frame) ==
    LET RECURSIVE Unique(_)
        Unique(q) == IF q = <<>> THEN <<>>
                     ELSE << Head(q) >>
                          \o Unique(SelectSeq(Tail(q), LAMBDA v : v # Head(q)))
        keys == Sorted(Unique(Column(frame, "DATETIME_t")))
    IN [k \in 1..Len(keys) |->
          [DATETIME_t |-> keys[k],
           rain |-> median(Column(Group(frame, keys[k]), "rain")),
           wind |-> median(Column(Group(frame, keys[k]), "wind"))]]

\* ------------------------------------------------------------------ Next
Callbacks == rain_cb_load \/ rain_cb_store \/ wind_cb_load \/ wind_cb_store

Writer ==
    \/ setup_board \/ setup_producer \/ calibrate_temperature \/ average
    \/ calibrate_bmp \/ ProduceDataUnbound
    \/ OpenBatch \/ LoopBreak \/ LoopTick \/ ReadRain \/ ReadWind
    \/ discharge \/ charge_time \/ SpinLow \/ SpinHigh \/ ReadSensors
    \/ WriteRow \/ Publish \/ CloseBatch \/ RenameBatch

Reducer ==
    \/ StartRecordFlow \/ StartProcessFlow \/ RecordFile \/ ProcessFile
    \/ EndPass

Next == Callbacks \/ Writer \/ Reducer \/ Stop \/ CutoffArrives

Spec == Init /\ [][Next]_vars

\* The reduction of update.py as a function of the batch it is handed:
\* every batch the writer can leave, then process_data and
\* process_data_live applied to it (process_flow, update.py:69-73).
LiveInit ==
    /\ RAIN = 0 /\ WIND = 0
    /\ cbPc = "idle" /\ cbTmp = 0
    /\ rainIssued = 0 /\ windIssued = 0
    /\ pc = "done"
    /\ bound = {} /\ bmp_t = NoTemp /\ sht_t = NoTemp /\ flowTemp = NoTemp
    /\ warned = FALSE
    /\ clock = FALSE
    /\ cur = NoFile /\ open = FALSE /\ ticks = 0
    /\ sample = NoSample
    /\ temp = 0 /\ chargeAt = 0 /\ stuck = FALSE
    /\ pins = UnsetPins
    /\ printed = 0 /\ sent = 0
    /\ live = {} /\ records = {} /\ pending = {}
    /\ content = [f \in FileIds |-> <<>>]
    /\ rPc = "run" /\ rKind = "process_flow" /\ rList = <<>>
    /\ rListed = {} /\ rFailed = {} /\ rDone = {}
    /\ data = <<>> /\ dataOf = NoFile /\ dataKind = "none"
    /\ archive = [f \in FileIds |-> [conv |-> 0, raw |-> 0]]
    /\ current = [f \in FileIds |-> 0]
    /\ passes = 0
    /\ seen = <<>> /\ seenNow = NoneSeen
    /\ \E n \in 1..MaxRows :
         \E ts \in Growing(n, Stamps, TRUE) :
            \E rs \in Growing(n, 0..MaxCount, FALSE) :
               \E ws \in Growing(n, 0..MaxPulses, FALSE) :
                  liveIn = RawBatch(n, ts, rs, ws)
    /\ liveOut = <<>>

LiveReduce ==
    /\ liveOut = <<>>
    /\ liveOut' = process_data_live(Converted(liveIn))
    /\ UNCHANGED << counters, cbVars, pc, clock, cur, open, ticks, sample,
                    vaneVars, printed, sent, dirVars, content, reducerVars,
                    flowVars, seenVars, liveIn >>

LiveSpec == LiveInit /\ [][LiveReduce]_vars

\* The main thread of a live process keeps running.
FairSpec == Spec /\ WF_vars(Writer)

\* ---------------------------------------------------------- properties
Last(q) == q[Len(q)]
Range(q) == {q[i] : i \in 1..Len(q)}

RECURSIVE SumOf(_)
SumOf(q) == IF q = <<>> THEN 0 ELSE Head(q) + SumOf(Tail(q))

\* C1 (as stated): at the head of the loop, when every tick has written its
\* row, the values read so far are the RAIN and WIND_SPEED columns of the
\* batch; together with what is still in the counter they add up to the
\* increments issued: no increment is lost and none is counted twice.
C1_ReadsSumToIncrements ==
    (pc = "loop" /\ Len(content[cur]) = ticks) =>
        /\ SumOf(Column(content[cur], "rain")) + RAIN = rainIssued
        /\ SumOf(Column(content[cur], "wind")) + WIND = windIssued

\* C1 (amended): the counters are cumulative and never reset, so every read
\* by the sampling loop returns exactly the number of increments issued
\* before it: the value read, not the sum of the values read, is the total.
C1_ReadReturnsTotalIssued ==
    [][ /\ (pc = "rain" /\ pc' = "wind") => sample'.rain = rainIssued
        /\ (pc = "wind" /\ pc' = "discharge") => sample'.wind = windIssued
      ]_vars

\* a second read of a counter that one pulse has reached: both reads
\* return 1, their sum is 2
C1_Witness ==
    /\ pc = "discharge" /\ ticks = 2
    /\ Len(content[cur]) = 1 /\ content[cur][1].rain = 1
    /\ sample.rain = 1 /\ sample.wind = 1
    /\ rainIssued = 1

\* C2: at the end of a reducer pass, every file of the listing that did not
\* itself fail has been relocated to the records area, whatever failed on
\* the other files and in whatever order they were listed.
C2_FailureDoesNotBlockOthers ==
    rPc = "ended" => \A B \in rListed \ rFailed : B \in records

\* C3: a file is in the records area only if its converted rows, and
\* nothing else, were appended to the archive; and a file on which a step
\* failed is still in the pending directory at the end of the pass.
C3_RelocatedOnlyAfterSuccess ==
    /\ \A f \in records : archive[f].conv >= 1 /\ archive[f].raw = 0
    /\ rPc = "ended" => \A f \in rFailed : f \in pending

\* C4: in every frame process_data has produced, row 0 has NaN rain and
\* wind deltas and row i > 0 has the difference to row i-1 of the same
\* batch file times the unit.
C4_DeltasWithinBatch ==
    dataKind = "converted" =>
        LET rows == content[dataOf] IN
        /\ Len(data) = Len(rows)
        /\ \A i \in 1..Len(rows) :
              IF i = 1
              THEN data[i].rain = NaN /\ data[i].wind = NaN
              ELSE /\ data[i].rain =
                         Val((rows[i].rain - rows[i-1].rain) * RAIN_ITERATOR)
                   /\ data[i].wind =
                         Val((rows[i].wind - rows[i-1].wind)
                                * ANEMOMETER_ITERATOR)

\* the batch of this run reduced after the earlier batch, in one pass
C4_Witness ==
    /\ dataKind = "converted" /\ dataOf = NewName
    /\ OldName \in records
    /\ Len(data) = 2
    /\ data[1].rain = NaN /\ data[2].rain = Val(RAIN_ITERATOR)
    /\ content[NewName][1].rain = 0

\* C5: when a sensor read raises in a tick (the except clause prints), no
\* row is written for the tick, the batch file stays open and the loop is
\* at its head again.
C5_SensorFailureKeepsBatch ==
    [][ (pc = "sensors" /\ printed' = printed + 1) =>
            /\ content' = content
            /\ open' /\ cur' = cur /\ cur' \in live'
            /\ pc' = "loop"
      ]_vars

\* the first tick lost its row to a sensor failure, the second is running
C5_Witness ==
    /\ pc = "rain" /\ ticks = 2 /\ open
    /\ printed = 1 /\ content[cur] = <<>>

\* C6: when producer.send raises (the main thread leaves the publish step
\* without a message sent), the except clause prints, the row of the sample
\* is the last row of the batch file, and the loop is at its head.
C6_PublishFailureLogged ==
    [][ (pc = "publish" /\ pc' \notin {"publish", "stopped"} /\ sent' = sent) =>
            /\ printed' = printed + 1
            /\ content' = content
            /\ content[cur] # <<>> /\ Last(content[cur]) = Row(sample)
            /\ open' /\ cur' = cur
            /\ pc' = "loop"
      ]_vars

\* the first tick's publish failed, its row is in the file, the second
\* tick is running
C6_Witness ==
    /\ pc = "rain" /\ ticks = 2 /\ open
    /\ printed = 1 /\ sent = 0 /\ Len(content[cur]) = 1

\* C7: once the sampling loop has been stopped from outside, no batch file
\* is left in the live location and no sink is open.
C7_StopRotatesBatch ==
    pc = "stopped" => (live = {} /\ ~open)

\* C8: a measurement on a wind vane whose sense line never reads high
\* ends, and the sampling loop reaches its next tick (or is stopped).
C8_StuckVaneTimesOut ==
    (pc = "spin" /\ stuck) ~> (pc \in {"loop", "stopped"})

\* C9: a batch file is in exactly one of the three locations; the file the
\* writer has open is in live; no file of the pending directory, and none
\* the reducer has listed, is open; and a file in the pending directory is
\* never written again nor taken back to live.
C9_Located ==
    /\ live \cap pending = {} /\ live \cap records = {}
    /\ pending \cap records = {}
    /\ open => cur \in live
    /\ \A f \in pending \cup Range(rList) : ~(open /\ cur = f)

C9_ExclusiveOwnership ==
    /\ []C9_Located
    /\ [][\A f \in pending : content'[f] = content[f] /\ f \notin live']_vars

\* update.py reduces the earlier batch while the writer has its batch open
C9_Witness ==
    /\ open /\ cur = NewName /\ content[NewName] # <<>>
    /\ rPc = "run" /\ rKind = "process_flow" /\ rList = <<OldName>>

\* C10: the RAIN and WIND_SPEED values of the rows of the run's batch are
\* non-decreasing.
C10_PulsesNonDecreasing ==
    \A i, j \in 1..Len(content[NewName]) :
        i < j => /\ content[NewName][i].rain <= content[NewName][j].rain
                 /\ content[NewName][i].wind <= content[NewName][j].wind

\* two rows, a pulse of each kind between them
C10_Witness ==
    /\ Len(content[NewName]) = 2
    /\ content[NewName][1] = [rain |-> 0, wind |-> 0]
    /\ content[NewName][2] = [rain |-> 1, wind |-> 1]

\* C11: the archive file a batch is appended to is keyed by the calendar
\* month of the batch's file name: two archived batches of the same month
\* are in the same archive file, two of different months in different ones.
Archived(f) == archive[f].conv + archive[f].raw > 0

C11_ArchiveKeyedByMonth ==
    \A f, g \in FileIds :
        (Archived(f) /\ Archived(g)) =>
            ((MonthOf(f) = MonthOf(g)) <=> (archive_file(f) = archive_file(g)))

\* C12: process_data_live returns exactly one record per distinct floored
\* minute of the batch, and each field of the record is the median of the
\* non-null values of the field among the rows of that minute: the middle
\* value for an odd count, the mean of the two middle values for an even
\* count; the null delta of row 0 is left out, not counted as zero.
\* The values are taken from the raw batch, not from the reducer's frame:
\* the delta of row i > 1 is (count[i] - count[i-1]) * unit, row 1 has none.
BucketRows(m) == { i \in 2..Len(liveIn) : floor_T(liveIn[i].time) = m }
DeltaOf(col, unit, i) == (liveIn[i][col] - liveIn[i - 1][col]) * unit

\* a is the k-th smallest of the deltas of the rows I
IsKth(I, col, unit, k, a) ==
    /\ \E i \in I : DeltaOf(col, unit, i) = a
    /\ Cardinality({ i \in I : DeltaOf(col, unit, i) < a }) < k
    /\ k <= Cardinality({ i \in I : DeltaOf(col, unit, i) <= a })

IsMedianOf(out, I, col, unit) ==
    LET n == Cardinality(I)
        D == { DeltaOf(col, unit, i) : i \in I }
    IN IF n = 0 THEN out = NaN
       ELSE IF n % 2 = 1
            THEN \E a \in D : IsKth(I, col, unit, (n + 1) \div 2, a)
                              /\ out = Val(a)
            ELSE \E a, b \in D :
                    /\ IsKth(I, col, unit, n \div 2, a)
                    /\ IsKth(I, col, unit, n \div 2 + 1, b)
                    /\ out # NaN /\ 2 * out[1] = a + b

C12_MedianPerMinute ==
    liveOut # <<>> =>
        LET minutes == { floor_T(liveIn[i].time) : i \in 1..Len(liveIn) }
        IN /\ Len(liveOut) = Cardinality(minutes)
           /\ { liveOut[k].DATETIME_t : k \in 1..Len(liveOut) } = minutes
           /\ \A k \in 1..Len(liveOut) :
                /\ IsMedianOf(liveOut[k].rain, BucketRows(liveOut[k].DATETIME_t),
                              "rain", RAIN_ITERATOR)
                /\ IsMedianOf(liveOut[k].wind, BucketRows(liveOut[k].DATETIME_t),
                              "wind", ANEMOMETER_ITERATOR)

\* rain counts 0, 1, 3 in the first minute and 3 in the next: the deltas of
\* the first minute are null, 1 and 2 pulses and their median is 1.5
\* pulses; the second minute has the single delta 0
C12_Witness ==
    /\ Len(liveIn) = 4
    /\ [i \in 1..4 |-> liveIn[i].time] = << 0, 20, 40, 60 >>
    /\ [i \in 1..4 |-> liveIn[i].rain] = << 0, 1, 3, 3 >>
    /\ Len(liveOut) = 2
    /\ liveOut[1].DATETIME_t = 0 /\ liveOut[1].rain = Val((3 * RAIN_ITERATOR) \div 2)
    /\ liveOut[2].DATETIME_t = 60 /\ liveOut[2].rain = Val(0)

\* C19: within a tick the row of the sample is appended to the batch file
\* before the sample is published: the step that hands a message to the
\* producer finds the sample's row as the last row of the current batch,
\* and the messages sent never outnumber the rows written.
C19_RowBeforePublish ==
    /\ [](cur # NoFile => sent <= Len(content[cur]))
    /\ [][sent' = sent + 1 =>
             /\ pc = "publish"
             /\ content[cur] # <<>>
             /\ Last(content[cur]) = Row(sample)
             /\ content' = content
             /\ sent' <= Len(content[cur])]_vars

\* the second tick has published: two rows, two messages
C19_Witness ==
    /\ pc = "loop" /\ ticks = 2
    /\ sent = 2 /\ Len(content[cur]) = 2

\* C20: for the batch of the run and every interleaving of the pulse
\* callbacks with the sampling loop, the pulse differences between
\* consecutive rows, as process_data computes them, add up to the increments
\* completed between the counter read of row 0 and the counter read of the
\* last row, and the difference of every row is the number of increments
\* completed between its read and the read of the row before it: every
\* pulse of the interval is attributed to exactly one row.
RECURSIVE SumPresent(_)
SumPresent(col) ==
    IF col = <<>> THEN 0
    ELSE (IF Head(col) = NaN THEN 0 ELSE Head(col)[1]) + SumPresent(Tail(col))

C20_DifferencesCountIncrements ==
    LET rows == content[NewName]
        conv == process_data(rows)
        n    == Len(rows)
    IN  (n >= 1 /\ Len(seen) = n) =>
          /\ SumPresent(Column(conv, "rain"))
                = (seen[n].rain - seen[1].rain) * RAIN_ITERATOR
          /\ SumPresent(Column(conv, "wind"))
                = (seen[n].wind - seen[1].wind) * ANEMOMETER_ITERATOR
          /\ \A i \in 2..n :
                /\ conv[i].rain
                     = Val((seen[i].rain - seen[i - 1].rain) * RAIN_ITERATOR)
                /\ conv[i].wind
                     = Val((seen[i].wind - seen[i - 1].wind) * ANEMOMETER_ITERATOR)

\* a rain pulse completes between the reads of the two rows, and no wind
\* pulse: the differences are 1 and 0
C20_Witness ==
    /\ Len(content[NewName]) = 2 /\ Len(seen) = 2
    /\ seen[1].rain = 0 /\ seen[2].rain = 1
    /\ seen[1].wind = 0 /\ seen[2].wind = 0
    /\ process_data(content[NewName])[2].rain = Val(RAIN_ITERATOR)
    /\ process_data(content[NewName])[2].wind = Val(0)

\* C18: across the reducer passes, those in which the archive append or
\* the relocation of a file fails included, the rows of a batch file are
\* appended to the archive, and to the current-data file, at most once.
C18_AppendedAtMostOnce ==
    \A f \in FileIds :
        content[f] # <<>> =>
            /\ archive[f].conv + archive[f].raw <= 1
            /\ current[f] <= 1

\* C17: every analog_read performs the discharge step (sense line driven
\* low, reference line an input, settle delay) strictly before the charge
\* step (reference line driven high, sense line an input), and the value it
\* returns is the number of polls of the sense line that read low before
\* the first poll that read high.
C17_DischargeThenCount ==
    [][ /\ (pins' = ChargingPins /\ pins # ChargingPins)
              => (pc = "charge" /\ pins = DischargedPins)
        /\ (pc = "spin" /\ pc' = "spin" /\ temp' # temp)
              => (pins = ChargingPins /\ (stuck \/ temp < chargeAt))
        /\ (pc = "spin" /\ pc' = "sensors")
              => /\ pins = ChargingPins
                 /\ ~stuck
                 /\ sample'.dir = chargeAt ]_vars

\* the sense line read low once and then high: analog_read returned 1
C17_Witness ==
    /\ pc = "sensors"
    /\ pins = ChargingPins
    /\ sample.dir = 1

\* C14: setup_board raising is fatal: after it no calibration, sampling or
\* reduction stage of weather_logging_flow runs.
C14_BoardFailureIsFatal ==
    (pc # "setup_board" /\ "board" \notin bound) =>
        /\ pc # "average"
        /\ ~InBatch /\ pc # "rename"
        /\ rKind # "record_data_flow"

\* C15: when setup_producer raises and the other stages succeed, the
\* sampling stage still runs: the call of produce_data enters the sampling
\* loop with its batch file open.
C15_ProducerFailureKeepsSampling ==
    [][ (/\ pc = "start" /\ pc' # pc
         /\ "producer" \notin bound
         /\ {"board", "calibrated"} \subseteq bound)
            => (pc' = "loop" /\ open' /\ cur' \in live') ]_vars

\* C16: calibrate_temperature returns the arithmetic mean of the two sensor
\* temperatures for every pair, logs the divergence warning exactly when
\* they differ by more than 1.0 degree (20.0/21.5 warns; 20.0/20.5 and
\* 20.5/21.5 do not), and a warning blocks neither the pressure
\* calibration nor the sampling that follow.
C16_MeanAndDivergence ==
    /\ [][ (pc = "average" /\ pc' # pc) =>
              /\ 2 * flowTemp' = bmp_t + sht_t
              /\ warned' <=> (bmp_t - sht_t > 20 \/ sht_t - bmp_t > 20)
              /\ (bmp_t = 400 /\ sht_t = 430) => warned'
              /\ (bmp_t = 400 /\ sht_t = 410) => ~warned'
              /\ (bmp_t = 410 /\ sht_t = 430) => ~warned'
              /\ pc' = "calibrate_bmp" /\ "temp" \in bound' ]_vars
    /\ []((pc = "calibrate_bmp" /\ warned) =>
              ENABLED (calibrate_bmp /\ "calibrated" \in bound' /\ warned'))
    /\ [][ (pc = "start" /\ pc' # pc /\ warned /\ ArgsBound) =>
              (pc' = "loop" /\ open' /\ cur' \in live') ]_vars

\* 20.0 and 21.5 degrees were read: the mean 20.75 is returned, the warning
\* logged, and the flow is at the pressure calibration
C16_Witness ==
    /\ pc = "calibrate_bmp"
    /\ warned /\ flowTemp = 415
    /\ "temp" \in bound

\* C13: once the wall-clock cutoff is reached while a batch is being
\* sampled, the writer eventually leaves the sampling loop, closes the batch
\* file and moves it into the pending directory; and it never leaves the
\* loop to rotate before the cutoff is reached.  The formula asks of the
\* rotation only that the batch file ends up closed and out of the sampling
\* loop: a process that is stopped, or whose os.rename raises, has done
\* that much, and where its batch is left is the subject of C7.
C13_RotatesAtCutoff ==
    /\ (InBatch /\ clock) ~> (~open /\ ~InBatch)
    /\ [][(pc = "loop" /\ pc' = "close") => clock']_vars

====
